---------------------------- MODULE Spec2Model ----------------------------
(***************************************************************************)
(* Model of src/app.py: a Flask service with read-only endpoints over a    *)
(* PostgreSQL/PostGIS store.  Modelled here: the process-wide engine       *)
(* accessor get_engine, and the handlers dissociate_terms,                 *)
(* dissociate_locations and test_db, each as the sequence of its store     *)
(* interactions.  Strings are sequences of one-character strings so that   *)
(* split, float() and LIKE are computed character by character.            *)
(***************************************************************************)
EXTENDS Integers, Sequences, FiniteSets, TLC

VARIABLES
    dbUrl,      \* os.getenv("DB_URL"): the process environment, fixed per run
    engine,     \* the module global _engine
    created,    \* number of create_engine calls made so far (history)
    thr,        \* per-thread position and locals inside get_engine
    store,      \* rows (study_id, term) of ns.annotations_terms
    coords,     \* rows (study_id, x, y, z) of ns.coordinates
    pc,         \* position of the request handler in flight
    req,        \* path parameters of the request in flight
    loc,        \* the handler's local variables
    log,        \* store interactions of the request in flight, in order
    resp,       \* the (body, status) pair the handler returned
    raised      \* the exception that left the handler, "" when none did

vars == <<dbUrl, engine, created, thr, store, coords, pc, req, loc, log, resp, raised>>

----------------------------------------------------------------------------
(* Bounds of the model *)

NThreads == 2
MaxStudy == 2
MaxRows == 2
BulkOver == 1
MaxCoordRows == 2

(* Program constants *)

StudiesCap == 50
DistanceThreshold == 5

----------------------------------------------------------------------------
(* Generic helpers *)

Min(a, b) == IF a < b THEN a ELSE b

SetMin(S) == CHOOSE x \in S : \A y \in S : x <= y

RECURSIVE SortAsc(_)
SortAsc(S) == IF S = {} THEN <<>>
              ELSE LET m == SetMin(S) IN <<m>> \o SortAsc(S \ {m})

SeqToSet(s) == {s[i] : i \in 1..Len(s)}

Take(s, n) == SubSeq(s, 1, Min(Len(s), n))

SubsetsUpTo(S, n) == {R \in SUBSET S : Cardinality(R) <= n}

----------------------------------------------------------------------------
(* Connection provider *)

NoUrl == [scheme |-> "", rest |-> ""]

DbUrls == {NoUrl,
           [scheme |-> "postgres", rest |-> "//u@h/db"],
           [scheme |-> "postgresql", rest |-> "//u@h/db"]}

NoEngine == [id |-> 0, url |-> NoUrl]

NormalizeUrl(db_url) ==
    IF db_url.scheme = "postgres" THEN [db_url EXCEPT !.scheme = "postgresql"]
    ELSE db_url

create_engine(db_url, n) == [id |-> n, url |-> db_url]

Threads == 1..NThreads

IdleThread == [pc |-> "idle", db_url |-> NoUrl, new |-> NoEngine,
               ret |-> NoEngine, exc |-> ""]

(* get_engine, one bytecode-level step at a time, for thread t *)

GE_Call(t) ==
    /\ thr[t].pc = "idle"
    /\ thr' = [thr EXCEPT ![t] = [IdleThread EXCEPT !.pc = "check"]]
    /\ UNCHANGED <<dbUrl, engine, created, store, coords, pc, req, loc, log, resp, raised>>

GE_Check(t) ==
    /\ thr[t].pc = "check"
    /\ thr' = [thr EXCEPT ![t].pc = IF engine # NoEngine THEN "return" ELSE "getenv"]
    /\ UNCHANGED <<dbUrl, engine, created, store, coords, pc, req, loc, log, resp, raised>>

GE_Getenv(t) ==
    /\ thr[t].pc = "getenv"
    /\ \/ /\ dbUrl = NoUrl
          /\ thr' = [thr EXCEPT ![t].pc = "idle", ![t].exc = "RuntimeError"]
       \/ /\ dbUrl # NoUrl
          /\ thr' = [thr EXCEPT ![t].pc = "create", ![t].db_url = NormalizeUrl(dbUrl)]
    /\ UNCHANGED <<dbUrl, engine, created, store, coords, pc, req, loc, log, resp, raised>>

GE_Create(t) ==
    /\ thr[t].pc = "create"
    /\ created' = created + 1
    /\ thr' = [thr EXCEPT ![t].pc = "assign",
                          ![t].new = create_engine(thr[t].db_url, created + 1)]
    /\ UNCHANGED <<dbUrl, engine, store, coords, pc, req, loc, log, resp, raised>>

GE_Assign(t) ==
    /\ thr[t].pc = "assign"
    /\ engine' = thr[t].new
    /\ thr' = [thr EXCEPT ![t].pc = "return"]
    /\ UNCHANGED <<dbUrl, created, store, coords, pc, req, loc, log, resp, raised>>

GE_Return(t) ==
    /\ thr[t].pc = "return"
    /\ thr' = [thr EXCEPT ![t].pc = "idle", ![t].ret = engine]
    /\ UNCHANGED <<dbUrl, engine, created, store, coords, pc, req, loc, log, resp, raised>>

NoReq == [endpoint |-> "none"]
NoResp == [status |-> 0]
NoLoc == [eng |-> NoEngine]

InitEngine ==
    /\ dbUrl \in DbUrls
    /\ engine = NoEngine
    /\ created = 0
    /\ thr = [t \in Threads |-> IdleThread]
    /\ store = {}
    /\ coords = {}
    /\ pc = "idle"
    /\ req = NoReq
    /\ loc = NoLoc
    /\ log = <<>>
    /\ resp = NoResp
    /\ raised = ""

NextEngine ==
    \E t \in Threads :
        \/ GE_Call(t)
        \/ GE_Check(t)
        \/ GE_Getenv(t)
        \/ GE_Create(t)
        \/ GE_Assign(t)
        \/ GE_Return(t)

SpecEngine == InitEngine /\ [][NextEngine]_vars


----------------------------------------------------------------------------
(* get_engine as one call, for a handler that runs with no other request   *)
(* in flight: the outcome of lines 10-24 on the current global and the     *)
(* environment.                                                            *)

get_engine(e, url, n) ==
    IF e # NoEngine THEN [exc |-> "", eng |-> e, made |-> 0]
    ELSE IF url = NoUrl THEN [exc |-> "RuntimeError", eng |-> NoEngine, made |-> 0]
    ELSE [exc |-> "", eng |-> create_engine(NormalizeUrl(url), n + 1), made |-> 1]

(* One interaction with the connection provider or the store, appended   *)
(* to the request's log                                                    *)
Logged(op, ok) == Append(log, [op |-> op, ok |-> ok])

ErrorOf(op) == "error in " \o op

----------------------------------------------------------------------------
(* Term annotations and the two set-difference queries *)

Terms == {<<"a">>, <<"b">>, <<"a", "b">>, <<"_">>, <<"\\">>}

BulkTerms == {<<"a">>, <<"a", "b">>}

RowUniverse == (1..MaxStudy) \X Terms

BulkRows(k, t) == {<<s, t>> : s \in (MaxStudy + 1)..(MaxStudy + k)}

SmallStores == SubsetsUpTo(RowUniverse, MaxRows)

BigStores == {BulkRows(k, t) \cup extra :
                 k \in (StudiesCap - 1)..(StudiesCap + BulkOver),
                 t \in BulkTerms,
                 extra \in SubsetsUpTo(RowUniverse, 1)}

(* PostgreSQL's  s LIKE p : % matches any run of characters, _ any one     *)
(* character, and a backslash makes the character after it literal.        *)
RECURSIVE LikeMatch(_, _)
LikeMatch(s, p) ==
    IF p = <<>> THEN s = <<>>
    ELSE IF Head(p) = "%"
        THEN LikeMatch(s, Tail(p)) \/ (s # <<>> /\ LikeMatch(Tail(s), p))
    ELSE IF Head(p) = "\\"
        THEN /\ Len(p) >= 2
             /\ s # <<>>
             /\ Head(s) = p[2]
             /\ LikeMatch(Tail(s), Tail(Tail(p)))
    ELSE IF Head(p) = "_"
        THEN s # <<>> /\ LikeMatch(Tail(s), Tail(p))
    ELSE s # <<>> /\ Head(s) = Head(p) /\ LikeMatch(Tail(s), Tail(p))

(* f"%{term}%" *)
LikePattern(term) == <<"%">> \o term \o <<"%">>

(* SELECT DISTINCT study_id ... WHERE term = :term_a EXCEPT ... = :term_b  *)
(* ORDER BY study_id                                                       *)
query_exact(rows, term_a, term_b) ==
    SortAsc({r[1] : r \in {x \in rows : x[2] = term_a}}
            \ {r[1] : r \in {x \in rows : x[2] = term_b}})

(* The same statement with LIKE and the two %...% patterns *)
query_like(rows, term_a, term_b) ==
    SortAsc({r[1] : r \in {x \in rows : LikeMatch(x[2], LikePattern(term_a))}}
            \ {r[1] : r \in {x \in rows : LikeMatch(x[2], LikePattern(term_b))}})

----------------------------------------------------------------------------
(* dissociate_terms *)

MatchExact == "exact"
MatchFuzzy == "fuzzy (LIKE)"

TermsLoc == [eng |-> NoEngine, result_exact |-> <<>>, result_like |-> <<>>,
             studies |-> <<>>, match_type |-> ""]

TermsError(op) == [status |-> 500,
                   body |-> [error |-> ErrorOf(op),
                             term_a |-> req.term_a, term_b |-> req.term_b]]

(* The list the handler takes as studies once the exact phase returned     *)
(* non-empty rows (line 160)                                               *)
StudiesOfExact(result_exact, result_like) == result_exact

(* Mutant: the fallback branch reads the exact rows *)
StudiesOfLikeFromExact(result_exact, result_like) == result_exact

(* The list it takes after the fallback (line 157)                         *)
StudiesOfLike(result_exact, result_like) == result_like

(* Mutant: the slice stops one short *)
TruncateOneShort(studies) == Take(studies, StudiesCap - 1)

(* studies[:50]                                                            *)
Truncate(studies) == Take(studies, StudiesCap)

(* Mutant: the test is inverted *)
NeedsFallbackInverted(result_exact) == result_exact # <<>>

(* not result_exact                                                        *)
NeedsFallback(result_exact) == result_exact = <<>>

DT_Request ==
    /\ pc \in {"idle", "done"}
    /\ \E term_a \in Terms, term_b \in Terms :
          req' = [endpoint |-> "dissociate_terms", term_a |-> term_a, term_b |-> term_b]
    /\ pc' = "get_engine"
    /\ loc' = TermsLoc
    /\ log' = <<>>
    /\ resp' = NoResp
    /\ raised' = ""
    /\ UNCHANGED <<dbUrl, engine, created, thr, store, coords>>

(* line 110: outside the try block *)
DT_GetEngine ==
    /\ pc = "get_engine" /\ req.endpoint = "dissociate_terms"
    /\ LET r == get_engine(engine, dbUrl, created) IN
          \/ /\ r.exc # ""
             /\ raised' = r.exc
             /\ pc' = "done"
             /\ log' = Logged("get_engine", FALSE)
             /\ UNCHANGED <<engine, created, loc>>
          \/ /\ r.exc = ""
             /\ engine' = r.eng
             /\ created' = created + r.made
             /\ loc' = [loc EXCEPT !.eng = r.eng]
             /\ pc' = "begin"
             /\ log' = Logged("get_engine", TRUE)
             /\ UNCHANGED raised
    /\ UNCHANGED <<dbUrl, thr, store, coords, req, resp>>

(* One store interaction of the try block that yields nothing the handler  *)
(* keeps: on failure the except clause answers 500.                        *)
DT_Plain(at, op, next) ==
    /\ pc = at /\ req.endpoint = "dissociate_terms"
    /\ \E ok \in BOOLEAN :
          /\ log' = Logged(op, ok)
          /\ IF ok THEN pc' = next /\ UNCHANGED resp
                   ELSE pc' = "done" /\ resp' = TermsError(op)
    /\ UNCHANGED <<dbUrl, engine, created, thr, store, coords, req, loc, raised>>

DT_Begin == DT_Plain("begin", "begin", "set_path")

DT_SetPath == DT_Plain("set_path", "set_search_path", "exact")

DT_Exact ==
    /\ pc = "exact" /\ req.endpoint = "dissociate_terms"
    /\ \/ /\ log' = Logged("query_exact", FALSE)
          /\ pc' = "done"
          /\ resp' = TermsError("query_exact")
          /\ UNCHANGED loc
       \/ /\ log' = Logged("query_exact", TRUE)
          /\ LET result_exact == query_exact(store, req.term_a, req.term_b) IN
                /\ loc' = [loc EXCEPT !.result_exact = result_exact]
                /\ pc' = IF NeedsFallback(result_exact) THEN "like" ELSE "build"
          /\ UNCHANGED resp
    /\ UNCHANGED <<dbUrl, engine, created, thr, store, coords, req, raised>>

DT_Like ==
    /\ pc = "like" /\ req.endpoint = "dissociate_terms"
    /\ \/ /\ log' = Logged("query_like", FALSE)
          /\ pc' = "done"
          /\ resp' = TermsError("query_like")
          /\ UNCHANGED loc
       \/ /\ log' = Logged("query_like", TRUE)
          /\ loc' = [loc EXCEPT !.result_like =
                                    query_like(store, req.term_a, req.term_b)]
          /\ pc' = "build"
          /\ UNCHANGED resp
    /\ UNCHANGED <<dbUrl, engine, created, thr, store, coords, req, raised>>

(* lines 157-170, then the commit on leaving the with block *)
DT_Return ==
    /\ pc = "build" /\ req.endpoint = "dissociate_terms"
    /\ LET fell == NeedsFallback(loc.result_exact)
           studies == IF fell THEN StudiesOfLike(loc.result_exact, loc.result_like)
                              ELSE StudiesOfExact(loc.result_exact, loc.result_like)
           match_type == IF fell THEN MatchFuzzy ELSE MatchExact
       IN /\ loc' = [loc EXCEPT !.studies = studies, !.match_type = match_type]
          /\ \/ /\ log' = Logged("commit", TRUE)
                /\ resp' = [status |-> 200,
                            body |-> [term_a |-> req.term_a,
                                      term_b |-> req.term_b,
                                      match_type |-> match_type,
                                      count |-> Len(studies),
                                      studies |-> Truncate(studies)]]
             \/ /\ log' = Logged("commit", FALSE)
                /\ resp' = TermsError("commit")
    /\ pc' = "done"
    /\ UNCHANGED <<dbUrl, engine, created, thr, store, coords, req, raised>>

HandlerUrls == {NoUrl, [scheme |-> "postgres", rest |-> "//u@h/db"]}

InitTerms ==
    /\ dbUrl \in HandlerUrls
    /\ engine = NoEngine
    /\ created = 0
    /\ thr = [t \in Threads |-> IdleThread]
    /\ store \in SmallStores \cup BigStores
    /\ coords = {}
    /\ pc = "idle"
    /\ req = NoReq
    /\ loc = NoLoc
    /\ log = <<>>
    /\ resp = NoResp
    /\ raised = ""

NextTerms ==
    \/ DT_Request
    \/ DT_GetEngine
    \/ DT_Begin
    \/ DT_SetPath
    \/ DT_Exact
    \/ DT_Like
    \/ DT_Return

SpecTerms == InitTerms /\ [][NextTerms]_vars


(* What a successful call of dissociate_terms takes as studies: lines      *)
(* 131-161 as one function of the table and the two terms.                 *)
DissociateTerms(rows, term_a, term_b) ==
    LET result_exact == query_exact(rows, term_a, term_b) IN
    IF NeedsFallback(result_exact)
        THEN StudiesOfLike(result_exact, query_like(rows, term_a, term_b))
        ELSE StudiesOfExact(result_exact, <<>>)

----------------------------------------------------------------------------
(* Properties of dissociate_terms *)

IsTermsRequest == req.endpoint = "dissociate_terms"

TermsAnswered == IsTermsRequest /\ pc = "done" /\ resp.status = 200

LogOps == [i \in 1..Len(log) |-> log[i].op]

Ran(op) == \E i \in 1..Len(log) : log[i].op = op

Contains(t, sub) ==
    \E i \in 0..(Len(t) - Len(sub)) : SubSeq(t, i + 1, i + Len(sub)) = sub

StudiesWithEqual(rows, term) == {r[1] : r \in {x \in rows : x[2] = term}}

StudiesWithSubstring(rows, term) == {r[1] : r \in {x \in rows : Contains(x[2], term)}}

ExactDifference(rows, a, b) == StudiesWithEqual(rows, a) \ StudiesWithEqual(rows, b)

SubstringDifference(rows, a, b) ==
    StudiesWithSubstring(rows, a) \ StudiesWithSubstring(rows, b)

StrictlyAscending(q) == \A i \in 1..(Len(q) - 1) : q[i] < q[i + 1]

(* C1: a successful call returns, untruncated, exactly the studies that    *)
(* have an annotation matching term_a and none matching term_b under the   *)
(* mode match_type names (equality for "exact", substring containment for  *)
(* "fuzzy (LIKE)"), without duplicates and in ascending order.             *)
C1_ResultIsNamedDifference ==
    TermsAnswered =>
        /\ resp.body.match_type \in {MatchExact, MatchFuzzy}
        /\ SeqToSet(loc.studies) =
              IF resp.body.match_type = MatchExact
                  THEN ExactDifference(store, req.term_a, req.term_b)
                  ELSE SubstringDifference(store, req.term_a, req.term_b)
        /\ StrictlyAscending(loc.studies)

(* C2: when the exact-equality difference is non-empty the LIKE query is   *)
(* never executed during the request, and a successful response says       *)
(* "exact" and carries the exact difference only.                          *)
C2_ExactHitNeverRunsLike ==
    (IsTermsRequest /\ ExactDifference(store, req.term_a, req.term_b) # {}) =>
        /\ ~Ran("query_like")
        /\ pc # "like"
        /\ TermsAnswered =>
              /\ resp.body.match_type = MatchExact
              /\ SeqToSet(loc.studies) = ExactDifference(store, req.term_a, req.term_b)
              /\ SeqToSet(resp.body.studies) \subseteq
                     ExactDifference(store, req.term_a, req.term_b)

C2_Witness ==
    /\ TermsAnswered
    /\ ExactDifference(store, req.term_a, req.term_b) # {}
    /\ resp.body.match_type = MatchExact
    /\ resp.body.studies # <<>>

(* C3: when the exact-phase difference is empty, the request that gets     *)
(* that empty result goes on to issue the LIKE query right after it, and a *)
(* successful response says "fuzzy (LIKE)" and carries the rows of the     *)
(* LIKE query.                                                             *)
C3_EmptyExactFallsBack ==
    (IsTermsRequest /\ ExactDifference(store, req.term_a, req.term_b) = {}) =>
        /\ (\E i \in 1..Len(log) : log[i].op = "query_exact" /\ log[i].ok) =>
              /\ loc.result_exact = <<>>
              /\ pc \in {"like", "build", "done"}
              /\ pc # "like" =>
                    \E i \in 1..(Len(log) - 1) :
                        log[i].op = "query_exact" /\ log[i + 1].op = "query_like"
        /\ TermsAnswered =>
              /\ LogOps = <<"get_engine", "begin", "set_search_path", "query_exact",
                            "query_like", "commit">>
              /\ resp.body.match_type = MatchFuzzy
              /\ loc.studies = query_like(store, req.term_a, req.term_b)
              /\ resp.body.studies = Take(loc.studies, StudiesCap)

C3_Witness ==
    /\ TermsAnswered
    /\ StudiesWithEqual(store, req.term_a) = {}
    /\ resp.body.match_type = MatchFuzzy
    /\ resp.body.studies # <<>>

(* C4: in a successful response the studies list has min(count, 50)        *)
(* entries, count is the size of the untruncated difference, and the list  *)
(* is the first min(count, 50) identifiers of the ascending result.        *)
C4_TruncationLaw ==
    TermsAnswered =>
        /\ Len(resp.body.studies) = Min(resp.body.count, 50)
        /\ resp.body.count = Len(loc.studies)
        /\ resp.body.count = Cardinality(SeqToSet(loc.studies))
        /\ StrictlyAscending(loc.studies)
        /\ \A i \in 1..Len(resp.body.studies) : resp.body.studies[i] = loc.studies[i]

C4_Witness ==
    /\ TermsAnswered
    /\ resp.body.count > 50
    /\ Len(resp.body.studies) = 50

(* C7: no exception leaves a handler; every failure ends in a JSON error   *)
(* response, which for dissociate_terms has a server-error status and      *)
(* embeds term_a and term_b.                                               *)
C7_NoExceptionEscapes ==
    (IsTermsRequest /\ pc = "done") =>
        /\ raised = ""
        /\ resp.status \in {200, 500}
        /\ resp.status = 500 =>
              /\ resp.body.term_a = req.term_a
              /\ resp.body.term_b = req.term_b

(* C9: a study returned for (a, b) is never returned for (b, a), whichever *)
(* matching mode either call ends in.                                      *)
C9_DirectionsDisjoint ==
    TermsAnswered =>
        SeqToSet(loc.studies)
            \cap SeqToSet(DissociateTerms(store, req.term_b, req.term_a)) = {}


----------------------------------------------------------------------------
(* Coordinate strings: coords.split("_") and float() *)

Digits == <<"0", "1", "2", "3", "4", "5", "6", "7", "8", "9">>

IsDigit(c) == \E i \in 1..10 : Digits[i] = c

DigitValue(c) == (CHOOSE i \in 1..10 : Digits[i] = c) - 1

(* str.split("_"): the pieces between underscores, empty pieces kept *)
RECURSIVE Split(_)
Split(str) ==
    IF \A i \in 1..Len(str) : str[i] # "_" THEN <<str>>
    ELSE LET k == CHOOSE i \in 1..Len(str) :
                      str[i] = "_" /\ \A j \in 1..(i - 1) : str[j] # "_"
         IN <<SubSeq(str, 1, k - 1)>> \o Split(SubSeq(str, k + 1, Len(str)))

RECURSIVE DecimalValue(_)
DecimalValue(ds) ==
    IF ds = <<>> THEN 0
    ELSE 10 * DecimalValue(SubSeq(ds, 1, Len(ds) - 1)) + DigitValue(ds[Len(ds)])

Unsigned(tok) == IF tok # <<>> /\ Head(tok) = "-" THEN Tail(tok) ELSE tok

(* float(tok) raises ValueError unless tok is a numeral: over the          *)
(* characters modelled, an optional minus sign and one or more digits.     *)
FloatRaises(tok) ==
    \/ Unsigned(tok) = <<>>
    \/ \E i \in 1..Len(Unsigned(tok)) : ~IsDigit(Unsigned(tok)[i])

float(tok) ==
    IF tok # <<>> /\ Head(tok) = "-" THEN 0 - DecimalValue(Tail(tok))
    ELSE DecimalValue(tok)

(* x, y, z = map(float, coords.split("_")): ValueError on a piece float    *)
(* rejects or on a number of pieces other than three.                      *)
UnpackRaises(str) ==
    \/ Len(Split(str)) # 3
    \/ \E i \in 1..Len(Split(str)) : FloatRaises(Split(str)[i])

Unpack(str) ==
    IF UnpackRaises(str) THEN <<0, 0, 0>>
    ELSE <<float(Split(str)[1]), float(Split(str)[2]), float(Split(str)[3])>>

(* Mutant: only the first string is validated *)
ParseRaisesFirstOnly(coords_a, coords_b) == UnpackRaises(coords_a)

(* The try block of lines 185-188 raises ValueError *)
ParseRaises(coords_a, coords_b) == UnpackRaises(coords_a) \/ UnpackRaises(coords_b)

CoordStrings ==
    {<<"0", "_", "0", "_", "0">>,
     <<"9", "_", "0", "_", "0">>,
     <<"8", "_", "0", "_", "0">>,
     <<"-", "1", "_", "0", "_", "0">>,
     <<"0", "_", "0">>,
     <<"0", "_", "0", "_", "0", "_", "0">>,
     <<"0", "_", "x", "_", "0">>,
     <<"0", "_", "-", "_", "0">>}

----------------------------------------------------------------------------
(* Coordinates table and the proximity query *)

Points == {<<0, 0, 0>>, <<3, 4, 0>>, <<4, 0, 0>>, <<9, 0, 0>>}

CoordUniverse == {<<s, pt[1], pt[2], pt[3]>> : s \in 1..MaxStudy, pt \in Points}

Square(n) == n * n

Dist2(r, pt) == Square(r[2] - pt[1]) + Square(r[3] - pt[2]) + Square(r[4] - pt[3])

(* Mutant: the comparison admits the boundary *)
WithinOrOn(r, pt) == Dist2(r, pt) <= Square(DistanceThreshold)

(* ST_3DDistance(geom, ST_MakePoint(x, y, z)) < 5, on squares *)
Within(r, pt) == Dist2(r, pt) < Square(DistanceThreshold)

query_near(rows, pt_a, pt_b) ==
    SortAsc({r[1] : r \in {x \in rows : Within(x, pt_a)}}
            \ {r[1] : r \in {x \in rows : Within(x, pt_b)}})

----------------------------------------------------------------------------
(* dissociate_locations *)

LocationsLoc == [eng |-> NoEngine, a |-> <<0, 0, 0>>, b |-> <<0, 0, 0>>, studies |-> <<>>]

LocationsError(op) == [status |-> 500,
                       body |-> [error |-> ErrorOf(op),
                                 location_a |-> req.coords_a,
                                 location_b |-> req.coords_b]]

InvalidCoordinates ==
    [status |-> 400,
     body |-> [error |-> "Invalid coordinate format. Use x_y_z (e.g., 0_-52_26)"]]

DL_Request ==
    /\ pc \in {"idle", "done"}
    /\ \E coords_a \in CoordStrings, coords_b \in CoordStrings :
          req' = [endpoint |-> "dissociate_locations",
                  coords_a |-> coords_a, coords_b |-> coords_b]
    /\ pc' = "parse"
    /\ loc' = LocationsLoc
    /\ log' = <<>>
    /\ resp' = NoResp
    /\ raised' = ""
    /\ UNCHANGED <<dbUrl, engine, created, thr, store, coords>>

(* lines 185-192 *)
DL_Parse ==
    /\ pc = "parse" /\ req.endpoint = "dissociate_locations"
    /\ \/ /\ ParseRaises(req.coords_a, req.coords_b)
          /\ resp' = InvalidCoordinates
          /\ pc' = "done"
          /\ UNCHANGED loc
       \/ /\ ~ParseRaises(req.coords_a, req.coords_b)
          /\ loc' = [loc EXCEPT !.a = Unpack(req.coords_a), !.b = Unpack(req.coords_b)]
          /\ pc' = "get_engine"
          /\ UNCHANGED resp
    /\ UNCHANGED <<dbUrl, engine, created, thr, store, coords, req, log, raised>>

(* line 194: outside both try blocks *)
DL_GetEngine ==
    /\ pc = "get_engine" /\ req.endpoint = "dissociate_locations"
    /\ LET r == get_engine(engine, dbUrl, created) IN
          \/ /\ r.exc # ""
             /\ raised' = r.exc
             /\ pc' = "done"
             /\ log' = Logged("get_engine", FALSE)
             /\ UNCHANGED <<engine, created, loc>>
          \/ /\ r.exc = ""
             /\ engine' = r.eng
             /\ created' = created + r.made
             /\ loc' = [loc EXCEPT !.eng = r.eng]
             /\ pc' = "begin"
             /\ log' = Logged("get_engine", TRUE)
             /\ UNCHANGED raised
    /\ UNCHANGED <<dbUrl, thr, store, coords, req, resp>>

DL_Plain(at, op, next) ==
    /\ pc = at /\ req.endpoint = "dissociate_locations"
    /\ \E ok \in BOOLEAN :
          /\ log' = Logged(op, ok)
          /\ IF ok THEN pc' = next /\ UNCHANGED resp
                   ELSE pc' = "done" /\ resp' = LocationsError(op)
    /\ UNCHANGED <<dbUrl, engine, created, thr, store, coords, req, loc, raised>>

DL_Begin == DL_Plain("begin", "begin", "set_path")

DL_SetPath == DL_Plain("set_path", "set_search_path", "query")

DL_Query ==
    /\ pc = "query" /\ req.endpoint = "dissociate_locations"
    /\ \/ /\ log' = Logged("query_near", FALSE)
          /\ pc' = "done"
          /\ resp' = LocationsError("query_near")
          /\ UNCHANGED loc
       \/ /\ log' = Logged("query_near", TRUE)
          /\ loc' = [loc EXCEPT !.studies = query_near(coords, loc.a, loc.b)]
          /\ pc' = "build"
          /\ UNCHANGED resp
    /\ UNCHANGED <<dbUrl, engine, created, thr, store, coords, req, raised>>

(* lines 228-235, then the commit on leaving the with block *)
DL_Return ==
    /\ pc = "build" /\ req.endpoint = "dissociate_locations"
    /\ \/ /\ log' = Logged("commit", TRUE)
          /\ resp' = [status |-> 200,
                      body |-> [location_a |-> loc.a,
                                location_b |-> loc.b,
                                distance_threshold_mm |-> DistanceThreshold,
                                count |-> Len(loc.studies),
                                studies |-> loc.studies]]
       \/ /\ log' = Logged("commit", FALSE)
          /\ resp' = LocationsError("commit")
    /\ pc' = "done"
    /\ UNCHANGED <<dbUrl, engine, created, thr, store, coords, req, loc, raised>>

InitLocations ==
    /\ dbUrl \in HandlerUrls
    /\ engine = NoEngine
    /\ created = 0
    /\ thr = [t \in Threads |-> IdleThread]
    /\ store = {}
    /\ coords \in SubsetsUpTo(CoordUniverse, MaxCoordRows)
    /\ pc = "idle"
    /\ req = NoReq
    /\ loc = NoLoc
    /\ log = <<>>
    /\ resp = NoResp
    /\ raised = ""

NextLocations ==
    \/ DL_Request
    \/ DL_Parse
    \/ DL_GetEngine
    \/ DL_Begin
    \/ DL_SetPath
    \/ DL_Query
    \/ DL_Return

SpecLocations == InitLocations /\ [][NextLocations]_vars

----------------------------------------------------------------------------
(* Properties of dissociate_locations *)

IsLocationsRequest == req.endpoint = "dissociate_locations"

LocationsAnswered == IsLocationsRequest /\ pc = "done" /\ resp.status = 200

CoordsOf(study) == {r \in coords : r[1] = study}

StudyIds == {r[1] : r \in coords}

(* Squared Euclidean distance of a stored coordinate to a parsed point *)
SqDistance(r, pt) ==
    (r[2] - pt[1]) * (r[2] - pt[1]) + (r[3] - pt[2]) * (r[3] - pt[2])
        + (r[4] - pt[3]) * (r[4] - pt[3])

NearStudy(study, pt) == \E r \in CoordsOf(study) : SqDistance(r, pt) < 25

(* C5: a study is returned iff one of its coordinates is at distance       *)
(* strictly less than 5 from A and none is at distance strictly less than  *)
(* 5 from B; distance exactly 5 from A does not count as near A, distance  *)
(* exactly 5 from B does not exclude.                                      *)
C5_ProximityPolicy ==
    LocationsAnswered =>
        /\ \A study \in StudyIds :
              study \in SeqToSet(resp.body.studies)
                  <=> (NearStudy(study, loc.a) /\ ~NearStudy(study, loc.b))
        /\ SeqToSet(resp.body.studies) \subseteq StudyIds
        /\ \A study \in StudyIds :
              (\A r \in CoordsOf(study) : SqDistance(r, loc.a) >= 25)
                  => study \notin SeqToSet(resp.body.studies)
        /\ \A study \in StudyIds :
              (/\ NearStudy(study, loc.a)
               /\ \A r \in CoordsOf(study) : SqDistance(r, loc.b) >= 25)
                  => study \in SeqToSet(resp.body.studies)

C5_Witness ==
    /\ LocationsAnswered
    /\ \E r \in coords :
          SqDistance(r, loc.a) = 25 /\ r[1] \notin SeqToSet(resp.body.studies)
    /\ \E r \in coords :
          SqDistance(r, loc.b) = 25 /\ r[1] \in SeqToSet(resp.body.studies)

Pieces(str) == Split(str)

IsNumeral(tok) ==
    \/ /\ Len(tok) >= 1
       /\ \A i \in 1..Len(tok) : tok[i] \in SeqToSet(Digits)
    \/ /\ Len(tok) >= 2
       /\ tok[1] = "-"
       /\ \A i \in 2..Len(tok) : tok[i] \in SeqToSet(Digits)

Malformed(str) ==
    \/ Len(Pieces(str)) # 3
    \/ \E i \in 1..Len(Pieces(str)) : ~IsNumeral(Pieces(str)[i])

(* C6: when either coordinate string is malformed the request ends with a  *)
(* 400 response and touches neither the connection provider nor the store; *)
(* anything is logged only once both strings have parsed.                  *)
C6_MalformedFailsFast ==
    IsLocationsRequest =>
        /\ (Malformed(req.coords_a) \/ Malformed(req.coords_b)) =>
              /\ log = <<>>
              /\ loc.eng = NoEngine
              /\ raised = ""
              /\ pc \in {"parse", "done"}
              /\ pc = "done" => resp.status = 400
        /\ log # <<>> => (~Malformed(req.coords_a) /\ ~Malformed(req.coords_b))
        /\ (pc = "done" /\ resp.status = 400) =>
              (Malformed(req.coords_a) \/ Malformed(req.coords_b))

C6_Witness ==
    /\ IsLocationsRequest
    /\ pc = "done"
    /\ ~Malformed(req.coords_a)
    /\ Malformed(req.coords_b)
    /\ resp.status = 400
    /\ engine # NoEngine


----------------------------------------------------------------------------
(* test_db *)

DiagLoc == [eng |-> NoEngine, payload |-> <<>>]

(* payload[key] = value *)
Put(payload, key, value) ==
    [k \in DOMAIN payload \cup {key} |-> IF k = key THEN value ELSE payload[k]]

(* What LIMIT 3 can return from a table: any three rows, or all of them    *)
(* when there are fewer, in any order.                                     *)
RECURSIVE Orderings(_)
Orderings(S) ==
    IF S = {} THEN {<<>>}
    ELSE UNION {{<<x>> \o q : q \in Orderings(S \ {x})} : x \in S}

Limit3(table) ==
    UNION {Orderings(R) :
              R \in {Q \in SUBSET table : Cardinality(Q) = Min(3, Cardinality(table))}}

MetadataRows(n) == {[study_id |-> i] : i \in 1..n}

(* Mutant: the exception of a sample probe is not caught where it occurs *)
SampleExceptReraises(payload, key) == [payload |-> payload, caught |-> FALSE]

(* except Exception: payload[key] = []   (lines 268-269, 275-276, 283-284) *)
SampleExcept(payload, key) == [payload |-> Put(payload, key, <<>>), caught |-> TRUE]

DiagError(op) ==
    [status |-> 500, body |-> Put(loc.payload, "error", ErrorOf(op))]

TD_Request ==
    /\ pc \in {"idle", "done"}
    /\ \E n \in 0..MaxStudy : req' = [endpoint |-> "test_db", metadata |-> n]
    /\ pc' = "get_engine"
    /\ loc' = DiagLoc
    /\ log' = <<>>
    /\ resp' = NoResp
    /\ raised' = ""
    /\ UNCHANGED <<dbUrl, engine, created, thr, store, coords>>

(* lines 248-249: outside the try block *)
TD_GetEngine ==
    /\ pc = "get_engine" /\ req.endpoint = "test_db"
    /\ LET r == get_engine(engine, dbUrl, created) IN
          \/ /\ r.exc # ""
             /\ raised' = r.exc
             /\ pc' = "done"
             /\ log' = Logged("get_engine", FALSE)
             /\ UNCHANGED <<engine, created, loc>>
          \/ /\ r.exc = ""
             /\ engine' = r.eng
             /\ created' = created + r.made
             /\ loc' = [eng |-> r.eng,
                        payload |-> [k \in {"ok", "dialect"} |->
                                        IF k = "ok" THEN FALSE ELSE r.eng.url.scheme]]
             /\ pc' = "begin"
             /\ log' = Logged("get_engine", TRUE)
             /\ UNCHANGED raised
    /\ UNCHANGED <<dbUrl, thr, store, coords, req, resp>>

TD_Plain(at, op, next) ==
    /\ pc = at /\ req.endpoint = "test_db"
    /\ \E ok \in BOOLEAN :
          /\ log' = Logged(op, ok)
          /\ IF ok THEN pc' = next /\ UNCHANGED resp
                   ELSE pc' = "done" /\ resp' = DiagError(op)
    /\ UNCHANGED <<dbUrl, engine, created, thr, store, coords, req, loc, raised>>

TD_Begin == TD_Plain("begin", "begin", "set_path")

TD_SetPath == TD_Plain("set_path", "set_search_path", "version")

(* A probe of the outer try block: its value goes into the payload, its    *)
(* failure to the outer except clause.                                     *)
TD_Probe(at, op, key, value, next) ==
    /\ pc = at /\ req.endpoint = "test_db"
    /\ \/ /\ log' = Logged(op, TRUE)
          /\ loc' = [loc EXCEPT !.payload = Put(loc.payload, key, value)]
          /\ pc' = next
          /\ UNCHANGED resp
       \/ /\ log' = Logged(op, FALSE)
          /\ resp' = DiagError(op)
          /\ pc' = "done"
          /\ UNCHANGED loc
    /\ UNCHANGED <<dbUrl, engine, created, thr, store, coords, req, raised>>

TD_Version == TD_Probe("version", "version", "version", "PostgreSQL", "count_coordinates")

TD_CountCoordinates ==
    TD_Probe("count_coordinates", "count_coordinates", "coordinates_count",
             Cardinality(coords), "count_metadata")

TD_CountMetadata ==
    TD_Probe("count_metadata", "count_metadata", "metadata_count",
             req.metadata, "count_terms")

TD_CountTerms ==
    TD_Probe("count_terms", "count_terms", "annotations_terms_count",
             Cardinality(store), "sample_coordinates")

(* A sample probe: its own try block around the query *)
TD_Sample(at, op, key, table, next) ==
    /\ pc = at /\ req.endpoint = "test_db"
    /\ \/ /\ log' = Logged(op, TRUE)
          /\ \E rows \in Limit3(table) :
                loc' = [loc EXCEPT !.payload = Put(loc.payload, key, rows)]
          /\ pc' = next
          /\ UNCHANGED resp
       \/ /\ log' = Logged(op, FALSE)
          /\ LET h == SampleExcept(loc.payload, key) IN
                IF h.caught
                    THEN /\ loc' = [loc EXCEPT !.payload = h.payload]
                         /\ pc' = next
                         /\ UNCHANGED resp
                    ELSE /\ resp' = DiagError(op)
                         /\ pc' = "done"
                         /\ UNCHANGED loc
    /\ UNCHANGED <<dbUrl, engine, created, thr, store, coords, req, raised>>

TD_SampleCoordinates ==
    TD_Sample("sample_coordinates", "sample_coordinates", "coordinates_sample",
              coords, "sample_metadata")

TD_SampleMetadata ==
    TD_Sample("sample_metadata", "sample_metadata", "metadata_sample",
              MetadataRows(req.metadata), "sample_terms")

TD_SampleTerms ==
    TD_Sample("sample_terms", "sample_terms", "annotations_terms_sample",
              store, "commit")

(* leaving the with block commits; then lines 286-287 *)
TD_Return ==
    /\ pc = "commit" /\ req.endpoint = "test_db"
    /\ \/ /\ log' = Logged("commit", TRUE)
          /\ loc' = [loc EXCEPT !.payload = Put(loc.payload, "ok", TRUE)]
          /\ resp' = [status |-> 200, body |-> Put(loc.payload, "ok", TRUE)]
       \/ /\ log' = Logged("commit", FALSE)
          /\ resp' = DiagError("commit")
          /\ UNCHANGED loc
    /\ pc' = "done"
    /\ UNCHANGED <<dbUrl, engine, created, thr, store, coords, req, raised>>

(* A coordinates table with one row for each of the first k studies *)
CoordsOfFirst(k) == {<<s, 0, 0, 0>> : s \in 1..k}

InitDiag ==
    /\ dbUrl \in HandlerUrls
    /\ engine = NoEngine
    /\ created = 0
    /\ thr = [t \in Threads |-> IdleThread]
    /\ store \in SubsetsUpTo(RowUniverse, 1)
    /\ coords \in {CoordsOfFirst(k) : k \in 0..MaxStudy}
    /\ pc = "idle"
    /\ req = NoReq
    /\ loc = NoLoc
    /\ log = <<>>
    /\ resp = NoResp
    /\ raised = ""

NextDiag ==
    \/ TD_Request
    \/ TD_GetEngine
    \/ TD_Begin
    \/ TD_SetPath
    \/ TD_Version
    \/ TD_CountCoordinates
    \/ TD_CountMetadata
    \/ TD_CountTerms
    \/ TD_SampleCoordinates
    \/ TD_SampleMetadata
    \/ TD_SampleTerms
    \/ TD_Return

SpecDiag == InitDiag /\ [][NextDiag]_vars

----------------------------------------------------------------------------
(* Properties of test_db *)

DiagFinished == req.endpoint = "test_db" /\ pc = "done" /\ raised = ""

Failed(op) == \E i \in 1..Len(log) : log[i].op = op /\ ~log[i].ok

Succeeded(op) == \E i \in 1..Len(log) : log[i].op = op /\ log[i].ok

CountProbes == {"count_coordinates", "count_metadata", "count_terms"}

SampleProbes == {"sample_coordinates", "sample_metadata", "sample_terms"}

SampleKey(op) ==
    CASE op = "sample_coordinates" -> "coordinates_sample"
      [] op = "sample_metadata" -> "metadata_sample"
      [] op = "sample_terms" -> "annotations_terms_sample"

SampleTable(op) ==
    CASE op = "sample_coordinates" -> coords
      [] op = "sample_metadata" -> MetadataRows(req.metadata)
      [] op = "sample_terms" -> store

OnlySamplesFailed ==
    /\ \E op \in SampleProbes : Failed(op)
    /\ \A i \in 1..Len(log) : ~log[i].ok => log[i].op \in SampleProbes

----------------------------------------------------------------------------
(* Properties of get_engine under concurrent callers *)

Returned == {t \in Threads : thr[t].ret # NoEngine}

(* C10: under any interleaving of get_engine calls the pooled handle is    *)
(* constructed at most once, every call that returns yields that one       *)
(* handle, which stays the cached one, and a call made with no connection  *)
(* string raises and leaves the cache unset.                               *)
C10_InitialisedOnce ==
    /\ created <= 1
    /\ \A t \in Returned : thr[t].ret = engine
    /\ \A t, u \in Returned : thr[t].ret = thr[u].ret
    /\ \A t \in Threads : thr[t].exc # "" => engine = NoEngine

=============================================================================
